---- MODULE Spec2Model ----
(***************************************************************************)
(* Model of the ProvisionNix composite action                              *)
(* (src/action/common/provision_nix.rs): its four sub-actions, the         *)
(* background fetch task spawned by execute() and revert(), and the host   *)
(* side effects of the sub-actions.                                        *)
(***************************************************************************)
EXTENDS Naturals, Sequences, FiniteSets

\* Number of background fetch tasks that may outlive the execute() call that
\* spawned them before the driver stops issuing new calls.
MaxOrphans == 2

VARIABLES
    state,            \* ActionState of each sub-action field of ProvisionNix
    action_state,     \* ProvisionNix.action_state
    host,             \* host[a]: the side effect of sub-action a is applied
    pc,               \* position of the caller inside execute()/revert()
    fetch_nix_handle, \* status of the task spawned by the current/last call
    fetch_nix_clone,  \* ActionState of the clone owned by that task
    orphans,          \* fetch tasks still alive after their execute() returned
    call,             \* kind of the current / most recent call
    result,           \* outcome of the most recent call ("none" while running)
    log,              \* start/finish events of sub-action operations, this call
    state0,           \* ActionStates when the current call began
    afterFailedSeq,   \* this revert() follows an execute() that failed at a sequential step
    execute_descriptions, \* execute_description() of each sub-action
    revert_descriptions,  \* revert_description() of each sub-action
    described,        \* which description method of the composite was last called
    buf,              \* the Vec<ActionDescription> it returned
    settings,         \* plan(): the CommonSettings passed in
    plan_fails,       \* plan(): the sub-actions whose own plan() returns Err
    plan_pc,          \* plan(): position of the caller
    plan_locals,      \* plan(): the sub-actions planned so far, in order
    plan_result,      \* plan(): <<>> while running, then <<"Ok", Self>> or <<"Err", kind>>
    export_in,        \* Export::execute: the command's fields, the process environment, the files
    export_pc,        \* Export::execute: "start" before the call, "done" after
    export_exit,      \* Export::execute: the eyre::Result<ExitCode> returned
    stdout            \* Export::execute: what was written to stdout

\* The composite, its background task and the host.
pvars == <<state, action_state, host, pc, fetch_nix_handle, fetch_nix_clone,
           orphans, call, result, log, state0, afterFailedSeq>>

\* The description methods' inputs and output.
dvars == <<execute_descriptions, revert_descriptions, described, buf>>

\* plan()'s inputs, position and result.
planvars == <<settings, plan_fails, plan_pc, plan_locals, plan_result>>

\* Export::execute's inputs and outputs.
evars == <<export_in, export_pc, export_exit, stdout>>

vars == <<pvars, dvars, planvars, evars>>

\* The four sub-action fields of the struct, in declared order.
Subs == <<"fetch_nix", "create_users_and_group", "create_nix_tree", "move_unpacked_nix">>

SubSet == {Subs[i] : i \in 1..4}

\* ActionState values.
ActionState == {"Uncompleted", "Completed", "Failed"}

\* Error kinds a call can return.
ProvisionNixError == {"FetchNix", "Join", "CreateUsersAndGroup", "CreateNixTree", "MoveUnpackedNix"}

\* Error kind produced by a failing operation of sub-action a.
ErrOf(a) ==
    CASE a = "fetch_nix" -> "FetchNix"
      [] a = "create_users_and_group" -> "CreateUsersAndGroup"
      [] a = "create_nix_tree" -> "CreateNixTree"
      [] a = "move_unpacked_nix" -> "MoveUnpackedNix"

\* Outcomes of one leaf operation.
Outcomes == {"ok", "err"}

\* Outcomes of the spawned task's body: it may additionally panic.
TaskOutcomes == {"ok", "err", "panic"}

\* Host effect of a leaf execute(): applied on success.
LeafExecute(a, o) == IF o = "ok" THEN [host EXCEPT ![a] = TRUE] ELSE host

\* Host effect of a leaf revert(): removed on success.
LeafRevert(a, o) == IF o = "ok" THEN [host EXCEPT ![a] = FALSE] ELSE host

\* try_execute skips the work when the action is already Completed.
TryExecuteSkips(s) == s = "Completed"

\* try_revert skips the work when the action is Uncompleted.
TryRevertSkips(s) == s = "Uncompleted"

\* ActionState recorded by try_execute once execute() returned outcome o.
TryExecuteState(o) == IF o = "ok" THEN "Completed" ELSE "Failed"

\* ActionState recorded by try_revert once revert() returned outcome o.
TryRevertState(o) == IF o = "ok" THEN "Uncompleted" ELSE "Failed"

Snapshot == [a \in SubSet \cup {"provision_nix"} |->
                IF a = "provision_nix" THEN action_state ELSE state[a]]

\* Log events: "s" a started; "f" finished with success; "e" finished with
\* its own error; "p" its task panicked.
Ev(k, a) == <<k, a>>

FinKind(o) == CASE o = "ok" -> "f" [] o = "err" -> "e" [] o = "panic" -> "p"

\* The composite as plan() returns it, on a host nothing was applied to.
ProvisionInit ==
    /\ state = [a \in SubSet |-> "Uncompleted"]
    /\ action_state = "Uncompleted"
    /\ host = [a \in SubSet |-> FALSE]
    /\ pc = <<"idle", "-">>
    /\ fetch_nix_handle = "none"
    /\ fetch_nix_clone = "Uncompleted"
    /\ orphans = 0
    /\ call = "none"
    /\ result = "none"
    /\ log = <<>>
    /\ state0 = [a \in SubSet \cup {"provision_nix"} |-> "Uncompleted"]
    /\ afterFailedSeq = FALSE

\* No description method has been called.
DescIdle ==
    /\ execute_descriptions = [a \in SubSet |-> <<>>]
    /\ revert_descriptions = [a \in SubSet |-> <<>>]
    /\ described = "none"
    /\ buf = <<>>

\* The settings the composite was planned from; no plan() is running.
PlanIdle ==
    /\ settings = [nix_package_url |-> "https://example.org/runtime.tar.xz"]
    /\ plan_fails = {}
    /\ plan_pc = "done"
    /\ plan_locals = <<>>
    /\ plan_result = <<>>

\* The export command is not running.
ExportIdle ==
    /\ export_in = <<>>
    /\ export_pc = "done"
    /\ export_exit = <<>>
    /\ stdout = <<>>

Init ==
    /\ ProvisionInit
    /\ DescIdle
    /\ PlanIdle
    /\ ExportIdle

\* ---------------------------------------------------------------------
\* The caller's return from execute()/revert() through the try_ wrappers.

\* Variant of Detach: execute() cancels the unfinished task when it returns.
DetachAbort ==
    /\ fetch_nix_handle' =
          IF fetch_nix_handle \in {"spawned", "running"} THEN "aborted" ELSE fetch_nix_handle
    /\ orphans' = orphans

\* A background task that has not finished when execute() returns is not
\* aborted: it stays alive, detached from the dropped handle.
Detach ==
    /\ fetch_nix_handle' =
          IF fetch_nix_handle \in {"spawned", "running"} THEN "detached" ELSE fetch_nix_handle
    /\ orphans' =
          IF fetch_nix_handle = "running"
                \/ (fetch_nix_handle = "spawned" /\ ~TryExecuteSkips(fetch_nix_clone))
          THEN orphans + 1
          ELSE orphans

\* execute() returns r ("ok" or an error kind) to try_execute.
ExecuteReturn(r) ==
    /\ pc' = <<"idle", "-">>
    /\ result' = r
    /\ action_state' = TryExecuteState(IF r = "ok" THEN "ok" ELSE "err")
    /\ Detach

\* revert() returns r ("ok" or an error kind) to try_revert.
RevertReturn(r) ==
    /\ pc' = <<"idle", "-">>
    /\ result' = r
    /\ action_state' = TryRevertState(IF r = "ok" THEN "ok" ELSE "err")

\* ---------------------------------------------------------------------
\* execute()

\* The driver invokes try_execute on the composite.
TryExecute ==
    /\ pc = <<"idle", "-">>
    /\ orphans < MaxOrphans
    /\ call' = "execute"
    /\ log' = <<>>
    /\ state0' = Snapshot
    /\ afterFailedSeq' = FALSE
    /\ IF TryExecuteSkips(action_state)
       THEN /\ result' = "ok"
            /\ UNCHANGED pc
       ELSE /\ result' = "none"
            /\ pc' = <<"x_spawn", "-">>
    /\ fetch_nix_handle' = "none"
    /\ UNCHANGED <<state, action_state, host, fetch_nix_clone, orphans>>

\* A caller invokes execute() itself on a composite that is Completed,
\* without the wrapper's skip (the way revert() invokes
\* move_unpacked_nix.revert()). The body runs; nothing but the body writes.
ExecuteCompleted ==
    /\ pc = <<"idle", "-">>
    /\ action_state = "Completed"
    /\ call' = "execute"
    /\ log' = <<>>
    /\ state0' = Snapshot
    /\ afterFailedSeq' = FALSE
    /\ result' = "none"
    /\ pc' = <<"x_spawn", "-">>
    /\ fetch_nix_handle' = "none"
    /\ UNCHANGED <<state, action_state, host, fetch_nix_clone, orphans>>

\* let mut fetch_nix_clone = fetch_nix.clone(); tokio::task::spawn(...)
ExecuteSpawn ==
    /\ pc = <<"x_spawn", "-">>
    /\ fetch_nix_clone' = state["fetch_nix"]
    /\ fetch_nix_handle' = "spawned"
    /\ pc' = <<"x_try", "create_users_and_group">>
    /\ UNCHANGED <<state, action_state, host, orphans, call, result, log, state0, afterFailedSeq>>

\* The spawned task of execute(): fetch_nix_clone.try_execute().await?; Ok(clone)
ExecuteTask ==
    /\ call = "execute"
    /\ \/ /\ fetch_nix_handle = "spawned"
          /\ IF TryExecuteSkips(fetch_nix_clone)
             THEN /\ fetch_nix_handle' = "ok"
                  /\ UNCHANGED log
             ELSE /\ fetch_nix_handle' = "running"
                  /\ log' = Append(log, Ev("s", "fetch_nix"))
          /\ UNCHANGED <<host, fetch_nix_clone>>
       \/ /\ fetch_nix_handle = "running"
          /\ \E o \in TaskOutcomes :
                /\ host' = LeafExecute("fetch_nix", o)
                /\ fetch_nix_clone' = IF o = "panic" THEN fetch_nix_clone ELSE TryExecuteState(o)
                /\ fetch_nix_handle' = o
                /\ log' = Append(log, Ev(FinKind(o), "fetch_nix"))
    /\ UNCHANGED <<state, action_state, pc, orphans, call, result, state0, afterFailedSeq>>

\* A detached fetch task finishes (or fails) after its execute() returned.
OrphanTask ==
    /\ orphans > 0
    /\ orphans' = orphans - 1
    /\ \E o \in TaskOutcomes : host' = LeafExecute("fetch_nix", o)
    /\ UNCHANGED <<state, action_state, pc, fetch_nix_handle, fetch_nix_clone,
                   call, result, log, state0, afterFailedSeq>>

\* Variant of SeqTryExecute: the step's error is dropped instead of returned.
SeqTryExecuteIgnoreErr(a, next) ==
    \/ /\ pc = <<"x_try", a>>
       /\ IF TryExecuteSkips(state[a])
          THEN /\ pc' = next
               /\ UNCHANGED log
          ELSE /\ pc' = <<"x_run", a>>
               /\ log' = Append(log, Ev("s", a))
       /\ UNCHANGED <<state, action_state, host, fetch_nix_handle, fetch_nix_clone,
                      orphans, call, result, state0, afterFailedSeq>>
    \/ /\ pc = <<"x_run", a>>
       /\ \E o \in Outcomes :
            /\ log' = Append(log, Ev(FinKind(o), a))
            /\ host' = LeafExecute(a, o)
            /\ state' = [state EXCEPT ![a] = TryExecuteState(o)]
            /\ pc' = next
       /\ UNCHANGED <<action_state, result, orphans, fetch_nix_handle,
                      fetch_nix_clone, call, state0, afterFailedSeq>>

\* a.try_execute().await? of a sequential step a, continuing at next.
SeqTryExecute(a, next) ==
    \/ /\ pc = <<"x_try", a>>
       /\ IF TryExecuteSkips(state[a])
          THEN /\ pc' = next
               /\ UNCHANGED log
          ELSE /\ pc' = <<"x_run", a>>
               /\ log' = Append(log, Ev("s", a))
       /\ UNCHANGED <<state, action_state, host, fetch_nix_handle, fetch_nix_clone,
                      orphans, call, result, state0, afterFailedSeq>>
    \/ /\ pc = <<"x_run", a>>
       /\ \E o \in Outcomes :
            /\ log' = Append(log, Ev(FinKind(o), a))
            /\ host' = LeafExecute(a, o)
            /\ state' = [state EXCEPT ![a] = TryExecuteState(o)]
            /\ IF o = "ok"
               THEN /\ pc' = next
                    /\ UNCHANGED <<action_state, result, orphans, fetch_nix_handle>>
               ELSE ExecuteReturn(ErrOf(a))
       /\ UNCHANGED <<fetch_nix_clone, call, state0, afterFailedSeq>>

\* Variant of ExecuteCreateUsersAndGroup: the step is started but not
\* awaited before the chain moves on.
ExecuteCreateUsersAndGroupNotAwaited ==
    /\ pc = <<"x_try", "create_users_and_group">>
    /\ pc' = <<"x_try", "create_nix_tree">>
    /\ log' = Append(log, Ev("s", "create_users_and_group"))
    /\ UNCHANGED <<state, action_state, host, fetch_nix_handle, fetch_nix_clone,
                   orphans, call, result, state0, afterFailedSeq>>

\* create_users_and_group.try_execute().await?;
ExecuteCreateUsersAndGroup ==
    SeqTryExecute("create_users_and_group", <<"x_try", "create_nix_tree">>)

\* Variant of ExecuteCreateNixTree: execute() is called, not try_execute().
ExecuteCreateNixTreeNoSkip ==
    \/ /\ pc = <<"x_try", "create_nix_tree">>
       /\ pc' = <<"x_run", "create_nix_tree">>
       /\ log' = Append(log, Ev("s", "create_nix_tree"))
       /\ UNCHANGED <<state, action_state, host, fetch_nix_handle, fetch_nix_clone,
                      orphans, call, result, state0, afterFailedSeq>>
    \/ /\ pc = <<"x_run", "create_nix_tree">>
       /\ SeqTryExecute("create_nix_tree", <<"x_join", "-">>)

\* Variant of ExecuteCreateNixTree: relocation follows without the join.
ExecuteCreateNixTreeSkipJoin ==
    SeqTryExecute("create_nix_tree", <<"x_try", "move_unpacked_nix">>)

\* create_nix_tree.try_execute().await?;
ExecuteCreateNixTree ==
    SeqTryExecute("create_nix_tree", <<"x_join", "-">>)

\* Variant of ExecuteJoin: the task's own error is not propagated.
ExecuteJoinNoPropagate ==
    /\ pc = <<"x_join", "-">>
    /\ fetch_nix_handle \in {"ok", "err", "panic"}
    /\ IF fetch_nix_handle \in {"ok", "err"}
       THEN /\ state' = [state EXCEPT !["fetch_nix"] = fetch_nix_clone]
            /\ pc' = <<"x_try", "move_unpacked_nix">>
            /\ fetch_nix_handle' = "joined"
            /\ UNCHANGED <<action_state, result, orphans>>
       ELSE /\ ExecuteReturn("Join")
            /\ UNCHANGED state
    /\ UNCHANGED <<host, fetch_nix_clone, call, log, state0, afterFailedSeq>>

\* Variant of ExecuteJoin: the task's own error is reported as a join error.
ExecuteJoinWrongKind ==
    /\ pc = <<"x_join", "-">>
    /\ fetch_nix_handle \in {"ok", "err", "panic"}
    /\ IF fetch_nix_handle = "ok"
       THEN /\ state' = [state EXCEPT !["fetch_nix"] = fetch_nix_clone]
            /\ pc' = <<"x_try", "move_unpacked_nix">>
            /\ fetch_nix_handle' = "joined"
            /\ UNCHANGED <<action_state, result, orphans>>
       ELSE /\ ExecuteReturn("Join")
            /\ UNCHANGED state
    /\ UNCHANGED <<host, fetch_nix_clone, call, log, state0, afterFailedSeq>>

\* Variant of ExecuteJoin: the join completes only for a task that succeeded.
ExecuteJoinOnlyOk ==
    /\ pc = <<"x_join", "-">>
    /\ fetch_nix_handle = "ok"
    /\ state' = [state EXCEPT !["fetch_nix"] = fetch_nix_clone]
    /\ pc' = <<"x_try", "move_unpacked_nix">>
    /\ fetch_nix_handle' = "joined"
    /\ UNCHANGED <<action_state, result, orphans, host, fetch_nix_clone, call, log,
                   state0, afterFailedSeq>>

\* *fetch_nix = fetch_nix_handle.await.map_err(|e| e.boxed())??;
ExecuteJoin ==
    /\ pc = <<"x_join", "-">>
    /\ fetch_nix_handle \in {"ok", "err", "panic"}
    /\ IF fetch_nix_handle = "ok"
       THEN /\ state' = [state EXCEPT !["fetch_nix"] = fetch_nix_clone]
            /\ pc' = <<"x_try", "move_unpacked_nix">>
            /\ fetch_nix_handle' = "joined"
            /\ UNCHANGED <<action_state, result, orphans>>
       ELSE /\ ExecuteReturn(IF fetch_nix_handle = "err" THEN "FetchNix" ELSE "Join")
            /\ UNCHANGED state
    /\ UNCHANGED <<host, fetch_nix_clone, call, log, state0, afterFailedSeq>>

\* Variant of ExecuteMoveUnpackedNix: the relocation's error is dropped.
ExecuteMoveUnpackedNixIgnoreErr ==
    SeqTryExecuteIgnoreErr("move_unpacked_nix", <<"x_done", "-">>)

\* move_unpacked_nix.try_execute().await?;
ExecuteMoveUnpackedNix ==
    SeqTryExecute("move_unpacked_nix", <<"x_done", "-">>)

\* Ok(())
ExecuteOk ==
    /\ pc = <<"x_done", "-">>
    /\ ExecuteReturn("ok")
    /\ UNCHANGED <<state, host, fetch_nix_clone, call, log, state0, afterFailedSeq>>

Execute ==
    \/ ExecuteSpawn
    \/ ExecuteTask
    \/ ExecuteCreateUsersAndGroup
    \/ ExecuteCreateNixTree
    \/ ExecuteJoin
    \/ ExecuteMoveUnpackedNix
    \/ ExecuteOk

\* ---------------------------------------------------------------------
\* revert()

\* The driver invokes try_revert on the composite.
TryRevert ==
    /\ pc = <<"idle", "-">>
    /\ call' = "revert"
    /\ log' = <<>>
    /\ state0' = Snapshot
    /\ afterFailedSeq' = (call = "execute" /\ result \in {"CreateUsersAndGroup", "CreateNixTree"})
    /\ IF TryRevertSkips(action_state)
       THEN /\ result' = "ok"
            /\ UNCHANGED pc
       ELSE /\ result' = "none"
            /\ pc' = <<"r_spawn", "-">>
    /\ fetch_nix_handle' = "none"
    /\ UNCHANGED <<state, action_state, host, fetch_nix_clone, orphans>>

\* let mut fetch_nix_clone = fetch_nix.clone(); tokio::task::spawn(...)
RevertSpawn ==
    /\ pc = <<"r_spawn", "-">>
    /\ fetch_nix_clone' = state["fetch_nix"]
    /\ fetch_nix_handle' = "spawned"
    /\ pc' = <<"r_try", "create_users_and_group">>
    /\ UNCHANGED <<state, action_state, host, orphans, call, result, log, state0, afterFailedSeq>>

\* The spawned task of revert(): fetch_nix_clone.try_revert().await?; Ok(clone)
RevertTask ==
    /\ call = "revert"
    /\ \/ /\ fetch_nix_handle = "spawned"
          /\ IF TryRevertSkips(fetch_nix_clone)
             THEN /\ fetch_nix_handle' = "ok"
                  /\ UNCHANGED log
             ELSE /\ fetch_nix_handle' = "running"
                  /\ log' = Append(log, Ev("s", "fetch_nix"))
          /\ UNCHANGED <<host, fetch_nix_clone>>
       \/ /\ fetch_nix_handle = "running"
          /\ \E o \in TaskOutcomes :
                /\ host' = LeafRevert("fetch_nix", o)
                /\ fetch_nix_clone' = IF o = "panic" THEN fetch_nix_clone ELSE TryRevertState(o)
                /\ fetch_nix_handle' = o
                /\ log' = Append(log, Ev(FinKind(o), "fetch_nix"))
    /\ UNCHANGED <<state, action_state, pc, orphans, call, result, state0, afterFailedSeq>>

\* fetch_nix_handle.abort(): a finished task is unaffected; an unfinished one
\* is cancelled, and the removal it had in flight may or may not have landed.
Abort(h) ==
    /\ fetch_nix_handle' =
          IF fetch_nix_handle \in {"spawned", "running"} THEN "aborted" ELSE fetch_nix_handle
    /\ host' \in IF fetch_nix_handle = "running"
                 THEN {h, [h EXCEPT !["fetch_nix"] = FALSE]}
                 ELSE {h}

\* Variant of SeqTryRevert: the error is returned without aborting the task.
SeqTryRevertNoAbort(a, next) ==
    \/ /\ pc = <<"r_try", a>>
       /\ IF TryRevertSkips(state[a])
          THEN /\ pc' = next
               /\ UNCHANGED log
          ELSE /\ pc' = <<"r_run", a>>
               /\ log' = Append(log, Ev("s", a))
       /\ UNCHANGED <<state, action_state, host, fetch_nix_handle, fetch_nix_clone,
                      orphans, call, result, state0, afterFailedSeq>>
    \/ /\ pc = <<"r_run", a>>
       /\ \E o \in Outcomes :
            /\ log' = Append(log, Ev(FinKind(o), a))
            /\ state' = [state EXCEPT ![a] = TryRevertState(o)]
            /\ host' = LeafRevert(a, o)
            /\ IF o = "ok"
               THEN /\ pc' = next
                    /\ UNCHANGED <<action_state, result>>
               ELSE RevertReturn(ErrOf(a))
       /\ UNCHANGED <<fetch_nix_handle, fetch_nix_clone, orphans, call, state0, afterFailedSeq>>

\* if let Err(err) = a.try_revert().await { fetch_nix_handle.abort(); return Err(err); }
SeqTryRevert(a, next) ==
    \/ /\ pc = <<"r_try", a>>
       /\ IF TryRevertSkips(state[a])
          THEN /\ pc' = next
               /\ UNCHANGED log
          ELSE /\ pc' = <<"r_run", a>>
               /\ log' = Append(log, Ev("s", a))
       /\ UNCHANGED <<state, action_state, host, fetch_nix_handle, fetch_nix_clone,
                      orphans, call, result, state0, afterFailedSeq>>
    \/ /\ pc = <<"r_run", a>>
       /\ \E o \in Outcomes :
            /\ log' = Append(log, Ev(FinKind(o), a))
            /\ state' = [state EXCEPT ![a] = TryRevertState(o)]
            /\ IF o = "ok"
               THEN /\ pc' = next
                    /\ host' = LeafRevert(a, o)
                    /\ UNCHANGED <<action_state, result, fetch_nix_handle>>
               ELSE /\ Abort(LeafRevert(a, o))
                    /\ RevertReturn(ErrOf(a))
       /\ UNCHANGED <<fetch_nix_clone, orphans, call, state0, afterFailedSeq>>

\* Variant of RevertCreateUsersAndGroup: its error is dropped and the
\* chain goes on.
RevertCreateUsersAndGroupIgnoreErr ==
    \/ /\ pc = <<"r_try", "create_users_and_group">>
       /\ SeqTryRevert("create_users_and_group", <<"r_try", "create_nix_tree">>)
    \/ /\ pc = <<"r_run", "create_users_and_group">>
       /\ \E o \in Outcomes :
            /\ log' = Append(log, Ev(FinKind(o), "create_users_and_group"))
            /\ state' = [state EXCEPT !["create_users_and_group"] = TryRevertState(o)]
            /\ host' = LeafRevert("create_users_and_group", o)
       /\ pc' = <<"r_try", "create_nix_tree">>
       /\ UNCHANGED <<action_state, result, fetch_nix_handle, fetch_nix_clone, orphans,
                      call, state0, afterFailedSeq>>

\* create_users_and_group.try_revert() and its error branch
RevertCreateUsersAndGroup ==
    SeqTryRevert("create_users_and_group", <<"r_try", "create_nix_tree">>)

\* create_nix_tree.try_revert() and its error branch
RevertCreateNixTree ==
    SeqTryRevert("create_nix_tree", <<"r_join", "-">>)

\* *fetch_nix = fetch_nix_handle.await.map_err(|e| e.boxed())??;
RevertJoin ==
    /\ pc = <<"r_join", "-">>
    /\ fetch_nix_handle \in {"ok", "err", "panic"}
    /\ IF fetch_nix_handle = "ok"
       THEN /\ state' = [state EXCEPT !["fetch_nix"] = fetch_nix_clone]
            /\ pc' = <<"r_run", "move_unpacked_nix">>
            /\ fetch_nix_handle' = "joined"
            /\ log' = Append(log, Ev("s", "move_unpacked_nix"))
            /\ UNCHANGED <<action_state, result>>
       ELSE /\ RevertReturn(IF fetch_nix_handle = "err" THEN "FetchNix" ELSE "Join")
            /\ UNCHANGED <<state, fetch_nix_handle, log>>
    /\ UNCHANGED <<host, fetch_nix_clone, orphans, call, state0, afterFailedSeq>>

\* move_unpacked_nix.revert().await?;
RevertMoveUnpackedNix ==
    /\ pc = <<"r_run", "move_unpacked_nix">>
    /\ \E o \in Outcomes :
         /\ log' = Append(log, Ev(FinKind(o), "move_unpacked_nix"))
         /\ host' = LeafRevert("move_unpacked_nix", o)
         /\ IF o = "ok"
            THEN /\ pc' = <<"r_done", "-">>
                 /\ UNCHANGED <<action_state, result>>
            ELSE RevertReturn("MoveUnpackedNix")
    /\ UNCHANGED <<state, fetch_nix_handle, fetch_nix_clone, orphans, call, state0, afterFailedSeq>>

\* Ok(())
RevertOk ==
    /\ pc = <<"r_done", "-">>
    /\ RevertReturn("ok")
    /\ UNCHANGED <<state, host, fetch_nix_handle, fetch_nix_clone, orphans,
                   call, log, state0, afterFailedSeq>>

Revert ==
    \/ RevertSpawn
    \/ RevertTask
    \/ RevertCreateUsersAndGroup
    \/ RevertCreateNixTree
    \/ RevertJoin
    \/ RevertMoveUnpackedNix
    \/ RevertOk

Next ==
    \/ TryExecute /\ UNCHANGED <<dvars, planvars, evars>>
    \/ ExecuteCompleted /\ UNCHANGED <<dvars, planvars, evars>>
    \/ Execute /\ UNCHANGED <<dvars, planvars, evars>>
    \/ OrphanTask /\ UNCHANGED <<dvars, planvars, evars>>
    \/ TryRevert /\ UNCHANGED <<dvars, planvars, evars>>
    \/ Revert /\ UNCHANGED <<dvars, planvars, evars>>

Spec == Init /\ [][Next]_vars

TypeOK ==
    /\ state \in [SubSet -> ActionState]
    /\ action_state \in ActionState
    /\ host \in [SubSet -> BOOLEAN]
    /\ orphans \in 0..MaxOrphans
    /\ fetch_nix_clone \in ActionState
    /\ result \in {"none", "ok"} \cup ProvisionNixError
    /\ Len(log) <= 8

\* ---------------------------------------------------------------------
\* execute_description() / revert_description()

\* What a sub-action's description method may return: no description, one,
\* or two in a fixed order.
DescriptionLists == {<<>>, <<"d1">>, <<"d1", "d2">>, <<"d2">>}

\* A description tagged with the sub-action it belongs to.
Tagged(a, ds) == [i \in 1..Len(ds) |-> <<a, ds[i]>>]

\* Variant of revert_description: the buffer is filled in declared order.
revert_descriptionForward ==
    Tagged("fetch_nix", revert_descriptions["fetch_nix"])
        \o Tagged("create_users_and_group", revert_descriptions["create_users_and_group"])
        \o Tagged("create_nix_tree", revert_descriptions["create_nix_tree"])
        \o Tagged("move_unpacked_nix", revert_descriptions["move_unpacked_nix"])

\* ProvisionNix::revert_description: buf.append(...) four times.
revert_description ==
    Tagged("move_unpacked_nix", revert_descriptions["move_unpacked_nix"])
        \o Tagged("create_nix_tree", revert_descriptions["create_nix_tree"])
        \o Tagged("create_users_and_group", revert_descriptions["create_users_and_group"])
        \o Tagged("fetch_nix", revert_descriptions["fetch_nix"])

\* ProvisionNix::execute_description: buf.append(...) four times.
execute_description ==
    Tagged("fetch_nix", execute_descriptions["fetch_nix"])
        \o Tagged("create_users_and_group", execute_descriptions["create_users_and_group"])
        \o Tagged("create_nix_tree", execute_descriptions["create_nix_tree"])
        \o Tagged("move_unpacked_nix", execute_descriptions["move_unpacked_nix"])

\* A composite whose sub-actions carry any of the description lists.
DescInit ==
    /\ ProvisionInit
    /\ PlanIdle
    /\ ExportIdle
    /\ execute_descriptions \in [SubSet -> DescriptionLists]
    /\ revert_descriptions \in [SubSet -> {<<>>, <<"d1">>, <<"d1", "d2">>}]
    /\ described = "none"
    /\ buf = <<>>

\* A call of execute_description().
ExecuteDescription ==
    /\ described' = "execute"
    /\ buf' = execute_description
    /\ UNCHANGED <<execute_descriptions, revert_descriptions, pvars, planvars, evars>>

\* A call of revert_description().
RevertDescription ==
    /\ described' = "revert"
    /\ buf' = revert_description
    /\ UNCHANGED <<execute_descriptions, revert_descriptions, pvars, planvars, evars>>

DescNext ==
    \/ ExecuteDescription
    \/ RevertDescription

DescSpec == DescInit /\ [][DescNext]_vars

\* ---------------------------------------------------------------------
\* plan()

\* Values of settings.nix_package_url.
Urls == {"https://example.org/runtime.tar.xz", "https://example.org/other.tar.xz", "file:///runtime.tar.xz"}

\* PathBuf::from("/nix/temp-install-dir")
TempInstallDir == "/nix/temp-install-dir"

\* plan() is called with some settings; any of the sub-actions' plan() may fail.
PlanInit ==
    /\ ProvisionInit
    /\ DescIdle
    /\ ExportIdle
    /\ settings \in [nix_package_url : Urls]
    /\ plan_fails \in SUBSET SubSet
    /\ plan_pc = "fetch_nix"
    /\ plan_locals = <<>>
    /\ plan_result = <<>>

\* let a = A::plan(config).await...?; then on to `next`. A planned leaf is Uncompleted.
PlanSub(a, config, next) ==
    /\ plan_pc = a
    /\ IF a \in plan_fails
       THEN /\ plan_result' = <<"Err", a>>
            /\ plan_pc' = "done"
            /\ UNCHANGED plan_locals
       ELSE /\ plan_locals' = Append(plan_locals,
                                  [sub |-> a, config |-> config, action_state |-> "Uncompleted"])
            /\ plan_pc' = next
            /\ UNCHANGED plan_result
    /\ UNCHANGED <<settings, plan_fails, pvars, dvars, evars>>

\* FetchNix::plan(settings.nix_package_url.clone(), PathBuf::from("/nix/temp-install-dir"))
PlanFetchNix ==
    PlanSub("fetch_nix", <<settings.nix_package_url, TempInstallDir>>, "create_users_and_group")

\* CreateUsersAndGroup::plan(settings.clone())
PlanCreateUsersAndGroup ==
    PlanSub("create_users_and_group", <<settings>>, "create_nix_tree")

\* CreateNixTree::plan()
PlanCreateNixTree ==
    PlanSub("create_nix_tree", <<>>, "move_unpacked_nix")

\* Variant of PlanMoveUnpackedNix: the relocation is planned from another path.
PlanMoveUnpackedNixOtherPath ==
    PlanSub("move_unpacked_nix", <<"/nix/temp-install">>, "ok")

\* MoveUnpackedNix::plan(PathBuf::from("/nix/temp-install-dir"))
PlanMoveUnpackedNix ==
    PlanSub("move_unpacked_nix", <<TempInstallDir>>, "ok")

\* The local variable plan() bound to sub-action a.
PlanLocal(a) == plan_locals[CHOOSE i \in 1..Len(plan_locals) : plan_locals[i].sub = a]

\* Ok(Self { fetch_nix, create_users_and_group, create_nix_tree, move_unpacked_nix,
\*           action_state: ActionState::Uncompleted })
PlanOk ==
    /\ plan_pc = "ok"
    /\ plan_result' = <<"Ok", [fetch_nix |-> PlanLocal("fetch_nix"),
                               create_users_and_group |-> PlanLocal("create_users_and_group"),
                               create_nix_tree |-> PlanLocal("create_nix_tree"),
                               move_unpacked_nix |-> PlanLocal("move_unpacked_nix"),
                               action_state |-> "Uncompleted"]>>
    /\ plan_pc' = "done"
    /\ UNCHANGED <<settings, plan_fails, plan_locals, pvars, dvars, evars>>

PlanNext ==
    \/ PlanFetchNix
    \/ PlanCreateUsersAndGroup
    \/ PlanCreateNixTree
    \/ PlanMoveUnpackedNix
    \/ PlanOk

PlanSpec == PlanInit /\ [][PlanNext]_vars

\* The caller's own steps of execute() and revert().
CallerStep ==
    \/ ExecuteSpawn
    \/ ExecuteCreateUsersAndGroup
    \/ ExecuteCreateNixTree
    \/ ExecuteJoin
    \/ ExecuteMoveUnpackedNix
    \/ ExecuteOk
    \/ RevertSpawn
    \/ RevertCreateUsersAndGroup
    \/ RevertCreateNixTree
    \/ RevertJoin
    \/ RevertMoveUnpackedNix
    \/ RevertOk

\* The runtime keeps polling the caller and the spawned task, and every
\* sub-action operation returns.
LiveSpec ==
    /\ Spec
    /\ WF_vars(CallerStep /\ UNCHANGED <<dvars, planvars, evars>>)
    /\ WF_vars(ExecuteTask /\ UNCHANGED <<dvars, planvars, evars>>)
    /\ WF_vars(RevertTask /\ UNCHANGED <<dvars, planvars, evars>>)

\* ---------------------------------------------------------------------
\* The export command (src/cli/subcommand/export.rs)

\* An Option is <<>> (None) or <<v>> (Some(v)); a path is the sequence of
\* the components it was joined from.

\* const LOCAL_STATE_DIR
LOCAL_STATE_DIR == "/nix/var"

\* The strings of this model that contain a colon.
ColonStrings == {"/ho:me", "/s:t"}

\* Values an environment variable holding one string may have.
HomeValues == {<<>>, <<"">>, <<"/home/u">>, <<"/ho:me">>}

\* The process environment, the file system answers and the outcome of
\* rendering, for a call that calculates the environment.
CalculatedInputs ==
    [sample_output : {<<>>},
     sample_file : {"none"},
     format : {"Fish", "Sh"},
     SOURCED : {<<>>, <<"">>, <<"1">>, <<"0">>},
     HOME : HomeValues,
     XDG_STATE_HOME : {<<>>, <<"/st">>, <<"/s:t">>},
     XDG_DATA_DIRS : {<<>>, <<"/opt/share">>},
     NIX_SSL_CERT_FILE : {<<>>, <<"/cert.pem">>},
     PATH : {<<>>, <<"/usr/bin:/bin">>},
     MANPATH : {<<>>, <<"">>, <<"/usr/man">>},
     xdg_is_symlink : BOOLEAN,
     cert_found : BOOLEAN,
     emit : {"ok", "escape_err", "write_err"}]

\* Calls with --sample-output: the environment is read from a file.
SampleInputs ==
    [sample_output : {<<"sample.json">>},
     sample_file : {"missing", "bad_key", "good"},
     format : {"Fish", "Sh"},
     SOURCED : {<<>>, <<"1">>},
     HOME : {<<>>, <<"/home/u">>},
     XDG_STATE_HOME : {<<>>},
     XDG_DATA_DIRS : {<<>>},
     NIX_SSL_CERT_FILE : {<<>>},
     PATH : {<<>>},
     MANPATH : {<<>>},
     xdg_is_symlink : {FALSE},
     cert_found : {FALSE},
     emit : {"ok", "escape_err", "write_err"}]

\* fn nonempty_var_os
nonempty_var_os(v) == IF v = <<>> \/ v = <<"">> THEN <<>> ELSE v

\* env::split_paths
split_paths(v) ==
    CASE v = "/usr/bin:/bin" -> << <<"/usr/bin">>, <<"/bin">> >>
      [] OTHER -> << <<v>> >>

\* fn env_path
env_path(v) ==
    IF v = <<>> THEN <<>>
    ELSE IF v = <<"">> THEN << <<>> >>
    ELSE << split_paths(v[1]) >>

\* env::join_paths: fails when a path contains the separator.
join_paths(paths) ==
    IF \E i \in 1..Len(paths) : \E j \in 1..Len(paths[i]) : paths[i][j] \in ColonStrings
    THEN <<"Err">>
    ELSE <<"Ok", paths>>

\* The part of calculate_environment after HOME is known.
calculate_with_home(in, home) ==
    LET legacy_location == <<home, ".nix-profile">>
        xdg_state == nonempty_var_os(in.XDG_STATE_HOME)
        xdg_location == IF xdg_state # <<>>
                        THEN <<xdg_state[1], "nix/profile">>
                        ELSE <<home, ".local/state", "nix/profile">>
        nix_link == IF in.xdg_is_symlink THEN xdg_location ELSE legacy_location
        nix_profiles == << <<LOCAL_STATE_DIR, "nix/profiles/default">>, nix_link >>
        envs1 == {<<"__ETC_PROFILE_NIX_SOURCED", "1">>, <<"NIX_PROFILES", nix_profiles>>}
        data_old == env_path(in.XDG_DATA_DIRS)
        xdg_data_dirs == (IF data_old = <<>>
                          THEN << <<"/usr/local/share">>, <<"/usr/share">> >>
                          ELSE data_old[1])
                         \o << Append(nix_link, "share"),
                               <<LOCAL_STATE_DIR, "nix/profiles/default/share">> >>
        data_joined == join_paths(xdg_data_dirs)
        envs2 == envs1 \cup {<<"XDG_DATA_DIRS", xdg_data_dirs>>}
        envs3 == IF nonempty_var_os(in.NIX_SSL_CERT_FILE) = <<>> /\ in.cert_found
                 THEN envs2 \cup {<<"NIX_SSL_CERT_FILE", "candidate">>}
                 ELSE envs2
        path_old == env_path(in.PATH)
        path == << Append(nix_link, "bin"), <<LOCAL_STATE_DIR, "nix/profiles/default/bin">> >>
                \o (IF path_old = <<>> THEN <<>> ELSE path_old[1])
        path_joined == join_paths(path)
        envs4 == envs3 \cup {<<"PATH", path>>}
        man_old == env_path(in.MANPATH)
        manpath == << Append(nix_link, "share/man"),
                      <<LOCAL_STATE_DIR, "nix/profiles/default/share/man">> >>
                   \o (IF man_old = <<>> THEN <<>> ELSE man_old[1])
        man_joined == join_paths(manpath)
    IN  IF data_joined[1] = "Err" THEN <<"Err", "InvalidXdgDataDirs">>
        ELSE IF path_joined[1] = "Err" THEN <<"Err", "InvalidPathDirs">>
        ELSE IF man_old = <<>> THEN <<"Ok", envs4>>
        ELSE IF man_joined[1] = "Err" THEN <<"Err", "InvalidManPathDirs">>
        ELSE <<"Ok", envs4 \cup {<<"MANPATH", manpath>>}>>

\* pub fn calculate_environment
calculate_environment(in) ==
    IF nonempty_var_os(in.SOURCED) = <<"1">> THEN <<"Err", "AlreadyRun">>
    ELSE IF nonempty_var_os(in.HOME) = <<>> THEN <<"Err", "HomeNotSet">>
    ELSE calculate_with_home(in, in.HOME[1])

\* Variant of OnCalculateError: the other errors are returned as Err.
OnCalculateErrorPropagate(e) ==
    IF e = "AlreadyRun" THEN <<"Ok", "SUCCESS">> ELSE <<"Err", e>>

\* The two Err arms of `match calculate_environment()`.
OnCalculateError(e) ==
    IF e = "AlreadyRun" THEN <<"Ok", "SUCCESS">> ELSE <<"Ok", "FAILURE">>

\* The tail of execute: the keys are converted, the variables escaped for
\* the chosen shell and written to stdout.
Emit(in, env) ==
    CASE in.emit = "escape_err" -> [exit |-> <<"Err", "Escape">>, out |-> <<>>]
      [] in.emit = "write_err" -> [exit |-> <<"Err", "Io">>, out |-> <<>>]
      [] OTHER -> [exit |-> <<"Ok", "SUCCESS">>,
                   out |-> <<IF in.format = "Fish" THEN "Fish" ELSE "PosixShell", env>>]

\* Export::execute as a function of its inputs.
ExportResult(in) ==
    IF in.sample_output # <<>>
    THEN CASE in.sample_file = "missing" -> [exit |-> <<"Err", "Io">>, out |-> <<>>]
           [] in.sample_file = "bad_key" -> [exit |-> <<"Err", "VariableName">>, out |-> <<>>]
           [] OTHER -> Emit(in, {<<"SAMPLE", "value">>})
    ELSE LET c == calculate_environment(in)
         IN  IF c[1] = "Err"
             THEN [exit |-> OnCalculateError(c[2]), out |-> <<>>]
             ELSE Emit(in, c[2])

\* The export command is about to run in some environment.
ExportInit ==
    /\ ProvisionInit
    /\ DescIdle
    /\ PlanIdle
    /\ export_in \in CalculatedInputs \cup SampleInputs
    /\ export_pc = "start"
    /\ export_exit = <<>>
    /\ stdout = <<>>

\* async fn execute(self) -> eyre::Result<ExitCode>
ExportExecute ==
    /\ export_pc = "start"
    /\ export_pc' = "done"
    /\ export_exit' = ExportResult(export_in).exit
    /\ stdout' = ExportResult(export_in).out
    /\ UNCHANGED <<export_in, pvars, dvars, planvars>>

ExportNext == ExportExecute

ExportSpec == ExportInit /\ [][ExportNext]_vars

\* ---------------------------------------------------------------------
\* Properties

\* The sequential chain of execute(), in order.
SeqSteps == <<"create_users_and_group", "create_nix_tree", "move_unpacked_nix">>

\* Position in the log of the start of a's operation in this call (0: none).
StartPos(a) ==
    IF \E i \in 1..Len(log) : log[i] = Ev("s", a)
    THEN CHOOSE i \in 1..Len(log) : log[i] = Ev("s", a)
    ELSE 0

\* Position in the log of the end of a's operation in this call (0: none).
EndPos(a) ==
    IF \E i \in 1..Len(log) : log[i][2] = a /\ log[i][1] # "s"
    THEN CHOOSE i \in 1..Len(log) : log[i][2] = a /\ log[i][1] # "s"
    ELSE 0

Started(a) == StartPos(a) > 0

\* a's operation returned its own error in this call.
FailedInCall(a) == \E i \in 1..Len(log) : log[i] = Ev("e", a)

Idle == pc = <<"idle", "-">>

\* C1: when sequential step n of execute() fails, the call returns that
\* step's error at once; no later sequential step is started in the call and
\* its ActionState is what it was when the call began; every earlier
\* sequential step is Completed.
C1_SequentialFailFast ==
    \A n \in 1..2 :
        (call = "execute" /\ FailedInCall(SeqSteps[n])) =>
            /\ Idle
            /\ result = ErrOf(SeqSteps[n])
            /\ \A j \in (n + 1)..3 :
                  /\ ~Started(SeqSteps[j])
                  /\ state[SeqSteps[j]] = state0[SeqSteps[j]]
            /\ \A j \in 1..(n - 1) : state[SeqSteps[j]] = "Completed"

\* C1 witness: create_nix_tree failed after create_users_and_group was
\* executed successfully in the same call; relocation is still Uncompleted.
C1_Witness ==
    /\ call = "execute"
    /\ FailedInCall("create_nix_tree")
    /\ log[EndPos("create_users_and_group")] = Ev("f", "create_users_and_group")
    /\ state["move_unpacked_nix"] = "Uncompleted"
    /\ ~Started("move_unpacked_nix")

\* C2 (as stated): a revert() that follows an execute() which failed at a
\* sequential step, and that returns success, leaves no sub-action's side
\* effect on the host once every background task has ended.
C2_RevertAfterFailureCleansHost ==
    (call = "revert" /\ afterFailedSeq /\ result = "ok" /\ orphans = 0) =>
        \A a \in SubSet : ~host[a]

\* C3: between calls the composite is Completed only if all four
\* sub-actions are Completed, and after a successful execute() the composite
\* and all four sub-actions are Completed.
C3_CompletedOnlyIfAllCompleted ==
    /\ (Idle /\ action_state = "Completed") => \A a \in SubSet : state[a] = "Completed"
    /\ (call = "execute" /\ result = "ok") =>
          /\ action_state = "Completed"
          /\ \A a \in SubSet : state[a] = "Completed"

\* C3 witness: an execute() that ran all four sub-actions has returned
\* success on a composite that was not Completed before.
C3_Witness ==
    /\ call = "execute"
    /\ result = "ok"
    /\ state0["provision_nix"] # "Completed"
    /\ \A a \in SubSet : Started(a)
    /\ action_state = "Completed"

\* C4 (as stated): after a successful revert() of a composite that was
\* Completed with all four sub-actions Completed, the composite and each of
\* the four sub-actions are Uncompleted.
C4_RevertLeavesAllUncompleted ==
    (/\ call = "revert"
     /\ result = "ok"
     /\ \A a \in SubSet \cup {"provision_nix"} : state0[a] = "Completed") =>
        /\ action_state = "Uncompleted"
        /\ \A a \in SubSet : state[a] = "Uncompleted"

\* C5: when the revert of create_users_and_group or create_nix_tree fails,
\* revert() has returned that sibling's error, and the background task is
\* no longer pending: it was cancelled, or it had already finished.
C5_AbortOnRevertFailure ==
    \A n \in 1..2 :
        (call = "revert" /\ FailedInCall(SeqSteps[n])) =>
            /\ Idle
            /\ result = ErrOf(SeqSteps[n])
            /\ fetch_nix_handle \notin {"spawned", "running", "detached"}

\* C5 witness: create_nix_tree's revert failed while the fetch revert was
\* in flight, and the task was cancelled.
C5_Witness ==
    /\ call = "revert"
    /\ FailedInCall("create_nix_tree")
    /\ Started("fetch_nix")
    /\ EndPos("fetch_nix") = 0
    /\ fetch_nix_handle = "aborted"
    /\ result = "CreateNixTree"

\* Pairs <<A, B>> of sub-actions where execute() finishes A before it starts B.
ExecutedBefore ==
    { <<"create_users_and_group", "create_nix_tree">>,
      <<"create_nix_tree", "move_unpacked_nix">>,
      <<"fetch_nix", "move_unpacked_nix">> }

\* C6 (as stated): within a revert(), for sub-actions A and B where
\* execute() finishes A before starting B, B's revert has finished before
\* A's revert starts.
C6_RevertInReverseOrder ==
    call = "revert" =>
        \A p \in ExecutedBefore :
            (Started(p[1]) /\ Started(p[2])) =>
                /\ EndPos(p[2]) > 0
                /\ EndPos(p[2]) < StartPos(p[1])

\* C7 (as stated): revert() invokes the revert operation only of sub-actions
\* that are Completed: the revert operation of a sub-action whose
\* ActionState is Uncompleted, the relocation step included, never runs.
\* (A sub-action a failed operation left in Failed is set aside here.)
C7_RevertOnlyCompleted ==
    call = "revert" =>
        /\ \A n \in 1..3 :
              pc = <<"r_run", SeqSteps[n]>> => state[SeqSteps[n]] # "Uncompleted"
        /\ fetch_nix_handle = "running" => fetch_nix_clone # "Uncompleted"

\* C8: in execute(), once relocation has started, the call's background
\* task has been joined, any fetch it ran ended with success before the
\* relocation began, and the composite's fetch_nix is recorded Completed.
C8_RelocationAfterJoin ==
    (call = "execute" /\ Started("move_unpacked_nix")) =>
        /\ fetch_nix_handle = "joined"
        /\ state["fetch_nix"] = "Completed"
        /\ ~FailedInCall("fetch_nix")
        /\ Started("fetch_nix") =>
              /\ EndPos("fetch_nix") > 0
              /\ EndPos("fetch_nix") < StartPos("move_unpacked_nix")

\* C8 witness: relocation is running in a call whose task ran the fetch.
C8_Witness ==
    /\ pc = <<"x_run", "move_unpacked_nix">>
    /\ Started("fetch_nix")
    /\ state0["fetch_nix"] # "Completed"

\* C9 (as stated): once any sub-action's operation has failed in an
\* execute(), no sub-action is started later in that call.
C9_FailFastEverySubAction ==
    call = "execute" =>
        \A i, j \in 1..Len(log) :
            (i < j /\ log[i][1] \in {"e", "p"}) => log[j][1] # "s"

\* C9 (amended): once a sequential step has failed no sub-action is started
\* later in the call, and once the background fetch has failed the
\* relocation step is never started in the call.
C9_FailFastAtSequentialAndJoin ==
    call = "execute" =>
        /\ \A i, j \in 1..Len(log) :
              (i < j /\ log[i][1] = "e" /\ log[i][2] # "fetch_nix") => log[j][1] # "s"
        /\ (\E i \in 1..Len(log) : log[i][2] = "fetch_nix" /\ log[i][1] \in {"e", "p"})
              => ~Started("move_unpacked_nix")

\* C9 witness: the fetch failed before create_users_and_group started, both
\* sequential steps still ran, and execute() returned the fetch's error.
C9_Witness ==
    /\ call = "execute"
    /\ FailedInCall("fetch_nix")
    /\ EndPos("fetch_nix") < StartPos("create_users_and_group")
    /\ Started("create_nix_tree")
    /\ result = "FetchNix"
    /\ ~Started("move_unpacked_nix")

\* The caller is returning a sequential step's error from execute().
SiblingFails ==
    /\ call = "execute"
    /\ pc[1] = "x_run"
    /\ pc' = <<"idle", "-">>
    /\ result' \in {"CreateUsersAndGroup", "CreateNixTree"}

\* C10: when a sequential step of execute() fails while the background
\* fetch is running, the task is not aborted: it is left alive, detached
\* from the call, and execute() never aborts its task.
C10_ExecuteDoesNotAbort ==
    [][ /\ (SiblingFails /\ fetch_nix_handle = "running") =>
              /\ fetch_nix_handle' = "detached"
              /\ orphans' = orphans + 1
        /\ (call' = "execute") => fetch_nix_handle' # "aborted" ]_vars

\* C10 witness: execute() returned create_users_and_group's error while the
\* fetch was in flight, and the detached fetch has since put its artifact
\* on the host.
C10_Witness ==
    /\ call = "execute"
    /\ result = "CreateUsersAndGroup"
    /\ Started("fetch_nix")
    /\ EndPos("fetch_nix") = 0
    /\ fetch_nix_handle = "detached"
    /\ orphans = 0
    /\ host["fetch_nix"]
    /\ state["fetch_nix"] = "Uncompleted"

\* Sub-actions whose operation has started and not ended in this call.
InProgress == {a \in SubSet : Started(a) /\ EndPos(a) = 0}

\* C11: while a call of execute() or revert() is running, at most one
\* step of the sequential chain (users, tree, relocation) is in progress,
\* and at most two sub-actions are in progress in all: that step and the
\* fetch of the call's background task.
C11_OneBackgroundSubAction ==
    ~Idle =>
        /\ Cardinality(InProgress \ {"fetch_nix"}) <= 1
        /\ Cardinality(InProgress) <= 2

\* C11 witness: the background fetch and create_nix_tree are both in
\* progress inside one execute().
C11_Witness ==
    /\ pc = <<"x_run", "create_nix_tree">>
    /\ fetch_nix_handle = "running"
    /\ InProgress = {"fetch_nix", "create_nix_tree"}

\* The descriptions d[a] of the sub-actions in `order`, concatenated.
RECURSIVE Concatenation(_, _)
Concatenation(order, d) ==
    IF order = <<>>
    THEN <<>>
    ELSE Tagged(Head(order), d[Head(order)]) \o Concatenation(Tail(order), d)

\* A sequence back to front.
Reversed(q) == [i \in 1..Len(q) |-> q[Len(q) + 1 - i]]

\* C12: execute_description() is the concatenation of the sub-actions'
\* execute descriptions in declared order (fetch, users/groups, tree,
\* relocation), and revert_description() the concatenation of their revert
\* descriptions in the reverse order.
C12_DescriptionOrder ==
    /\ described = "execute" => buf = Concatenation(Subs, execute_descriptions)
    /\ described = "revert" => buf = Concatenation(Reversed(Subs), revert_descriptions)

\* C12 witness: revert_description() was called on a composite in which
\* every sub-action has a revert description and one has two.
C12_Witness ==
    /\ described = "revert"
    /\ \A a \in SubSet : revert_descriptions[a] # <<>>
    /\ Len(revert_descriptions["create_nix_tree"]) = 2
    /\ buf[1][1] = "move_unpacked_nix"
    /\ buf[Len(buf)][1] = "fetch_nix"

\* C13: an execute() never starts the operation of a sub-action that was
\* Completed when the call began; when all four were Completed the call
\* runs no operation at all, changes no ActionState and returns success.
C13_ExecuteSkipsCompleted ==
    call = "execute" =>
        /\ \A a \in SubSet : state0[a] = "Completed" => ~Started(a)
        /\ (\A a \in SubSet : state0[a] = "Completed") =>
              /\ log = <<>>
              /\ Snapshot = state0
              /\ Idle => result = "ok"

\* C13 witness: the body of execute() ran through its join on a composite
\* whose four sub-actions were Completed, and returned success.
C13_Witness ==
    /\ Idle
    /\ call = "execute"
    /\ result = "ok"
    /\ \A a \in SubSet : state0[a] = "Completed"
    /\ fetch_nix_handle = "joined"
    /\ log = <<>>

\* The sub-actions plan() has planned so far, in the order it planned them.
PlannedOrder == [i \in 1..Len(plan_locals) |-> plan_locals[i].sub]

\* C14: plan() plans the sub-actions in the order fetch, users/groups,
\* tree, relocation and runs no execute or revert. When it returns Ok, all
\* four were planned, the composite and its four sub-actions are
\* Uncompleted, the fetch has the settings' URL, and the fetch destination
\* and the relocation source are both /nix/temp-install-dir. When it
\* returns Err, the error is that of the first sub-action whose plan()
\* fails, no later sub-action was planned, and there is no composite.
C14_Plan ==
    /\ PlannedOrder = SubSeq(Subs, 1, Len(plan_locals))
    /\ plan_result # <<>> =>
          /\ host = [a \in SubSet |-> FALSE]
          /\ log = <<>>
          /\ plan_result[1] = "Ok" =>
                /\ PlannedOrder = Subs
                /\ plan_fails = {}
                /\ plan_result[2].action_state = "Uncompleted"
                /\ \A a \in SubSet :
                      /\ plan_result[2][a].sub = a
                      /\ plan_result[2][a].action_state = "Uncompleted"
                /\ plan_result[2].fetch_nix.config = <<settings.nix_package_url, "/nix/temp-install-dir">>
                /\ plan_result[2].move_unpacked_nix.config = <<"/nix/temp-install-dir">>
          /\ plan_result[1] = "Err" =>
                /\ Len(plan_result) = 2
                /\ \E n \in 1..4 :
                      /\ plan_result[2] = Subs[n]
                      /\ Subs[n] \in plan_fails
                      /\ \A j \in 1..(n - 1) : Subs[j] \notin plan_fails
                      /\ Len(plan_locals) = n - 1

\* C14 witness: a plan() that returned Ok from a URL other than the default.
C14_Witness ==
    /\ plan_result # <<>>
    /\ plan_result[1] = "Ok"
    /\ settings.nix_package_url = "file:///runtime.tar.xz"
    /\ plan_result[2].fetch_nix.config[2] = plan_result[2].move_unpacked_nix.config[1]

\* A plan() that returned Err at create_nix_tree, after two sub-actions were planned.
C14_WitnessErr ==
    /\ plan_result = <<"Err", "create_nix_tree">>
    /\ Len(plan_locals) = 2

\* The export command has run, calculating the environment itself.
ExportCalculated ==
    /\ export_pc = "done"
    /\ export_in # <<>>
    /\ export_in.sample_output = <<>>

\* C15: when __ETC_PROFILE_NIX_SOURCED is 1 the export command writes
\* nothing to stdout and returns Ok(SUCCESS); for every other error of the
\* calculation (HOME unset or empty among them) it writes nothing and
\* returns Ok(FAILURE), never an Err.
C15_ExportPredictableErrors ==
    ExportCalculated =>
        /\ export_in.SOURCED = <<"1">> =>
              /\ export_exit = <<"Ok", "SUCCESS">>
              /\ stdout = <<>>
        /\ (export_in.SOURCED # <<"1">> /\ export_in.HOME \in {<<>>, <<"">>}) =>
              /\ export_exit = <<"Ok", "FAILURE">>
              /\ stdout = <<>>
        /\ (/\ calculate_environment(export_in)[1] = "Err"
            /\ export_in.SOURCED # <<"1">>) =>
              /\ export_exit = <<"Ok", "FAILURE">>
              /\ stdout = <<>>

\* C15 witness: the command ran with HOME unset and was not already
\* sourced; it returned the failure exit code.
C15_Witness ==
    /\ ExportCalculated
    /\ export_in.HOME = <<>>
    /\ export_in.SOURCED = <<"0">>
    /\ export_exit = <<"Ok", "FAILURE">>

\* C16 (as stated): between calls, with no fetch task left running, a
\* sub-action recorded Completed has its side effect on the host and a
\* sub-action recorded Uncompleted has not.
C16_RecordAgreesWithHost ==
    (Idle /\ orphans = 0) =>
        \A a \in SubSet :
            /\ state[a] = "Completed" => host[a]
            /\ state[a] = "Uncompleted" => ~host[a]

\* C17: when create_users_and_group's revert fails in a revert(), the
\* reverts of create_nix_tree and of the relocation are not run and their
\* ActionStates are what they were, and the composite's fetch_nix record is
\* what it was when the call began; when create_nix_tree's revert fails,
\* the same holds of the relocation and of fetch_nix.
C17_RevertFailureFrame ==
    \A n \in 1..2 :
        (call = "revert" /\ FailedInCall(SeqSteps[n])) =>
            /\ \A j \in (n + 1)..3 :
                  /\ ~Started(SeqSteps[j])
                  /\ state[SeqSteps[j]] = state0[SeqSteps[j]]
            /\ state["fetch_nix"] = state0["fetch_nix"]

\* C17 witness: on a composite with all four Completed, the users' revert
\* failed; tree, relocation and fetch_nix are still recorded Completed.
C17_Witness ==
    /\ call = "revert"
    /\ FailedInCall("create_users_and_group")
    /\ \A a \in SubSet : state0[a] = "Completed"
    /\ \A a \in {"create_nix_tree", "move_unpacked_nix", "fetch_nix"} : state[a] = "Completed"
    /\ fetch_nix_handle = "aborted"

\* The fetch of this call's task ended with outcome kind k.
FetchEnded(k) == \E i \in 1..Len(log) : log[i] = Ev(k, "fetch_nix")

\* C18: an execute() in which the background fetch failed with its own
\* error and no sequential step failed returns the fetch's error; it
\* returns a join error only if the task panicked. Either way fetch_nix is
\* not replaced, the relocation is not started and keeps its state, and
\* users/groups and tree are Completed.
C18_JoinErrorKinds ==
    (call = "execute" /\ Idle /\ result # "none") =>
        /\ (/\ FetchEnded("e")
            /\ ~FailedInCall("create_users_and_group")
            /\ ~FailedInCall("create_nix_tree")) => result = "FetchNix"
        /\ result = "FetchNix" => FetchEnded("e")
        /\ result = "Join" => FetchEnded("p")
        /\ result \in {"FetchNix", "Join"} =>
              /\ state["fetch_nix"] = state0["fetch_nix"]
              /\ state["fetch_nix"] # "Completed"
              /\ ~Started("move_unpacked_nix")
              /\ state["move_unpacked_nix"] = state0["move_unpacked_nix"]
              /\ state["create_users_and_group"] = "Completed"
              /\ state["create_nix_tree"] = "Completed"

\* C18 witness: users/groups and tree were executed, the fetch failed, and
\* execute() returned the fetch's error with fetch_nix still Uncompleted.
C18_Witness ==
    /\ call = "execute"
    /\ Idle
    /\ result = "FetchNix"
    /\ log[EndPos("create_users_and_group")] = Ev("f", "create_users_and_group")
    /\ log[EndPos("create_nix_tree")] = Ev("f", "create_nix_tree")
    /\ state["fetch_nix"] = "Uncompleted"
    /\ state["move_unpacked_nix"] = "Uncompleted"

\* C19: under fair scheduling, with every sub-action operation returning,
\* every call of execute() and of revert() returns.
C19_CallsReturn == ~Idle ~> Idle

\* C19 witness: a revert() that aborted its unfinished background task has
\* returned.
C19_Witness ==
    /\ Idle
    /\ call = "revert"
    /\ result \in {"CreateUsersAndGroup", "CreateNixTree"}
    /\ fetch_nix_handle = "aborted"
    /\ Started("fetch_nix")

====
